---- MODULE Spec2Model ----
(***************************************************************************)
(* Authorization core of the user service:                                 *)
(*   - UserValidator.validateUpdate / checkModifyPermission                *)
(*     (src/src/validators/UserValidator.ts)                               *)
(*   - AuthController.authenticate / vanillaAuthenticate /                 *)
(*     requestPermissions (src/src/controllers/AuthController.ts)          *)
(*   - the authorize middleware (src/src/utils/Authorize.ts)               *)
(*                                                                         *)
(* JavaScript values are written as strings holding their literal:        *)
(* the number 0 is "0", the empty string is "''", the string a is "'a'",   *)
(* the boolean true is "true", a missing property is "undefined".  Strict  *)
(* equality (===) of two primitives is then equality of the literals.      *)
(***************************************************************************)
EXTENDS Integers, Sequences, FiniteSets, TLC

VARIABLES users, upd, auth, gate, disc

vars == <<users, upd, auth, gate, disc>>

----------------------------------------------------------------------------
(* JavaScript values *)

Undefined == "undefined"

\* The values for which !v is true.
Falsy == {"undefined", "null", "0", "''", "false", "NaN"}

Truthy(v) == v \notin Falsy

\* obj[k] of a JavaScript object held as a function from its own keys.
Get(obj, k) == IF k \in DOMAIN obj THEN obj[k] ELSE Undefined

\* delete obj[k] for every k in ks.
Without(obj, ks) == [k \in DOMAIN obj \ ks |-> obj[k]]

\* obj[k] = v.
With(obj, k, v) == [x \in DOMAIN obj \cup {k} |-> IF x = k THEN v ELSE obj[x]]

----------------------------------------------------------------------------
(* UserValidator.ts: the allowed-field lists *)

allowedSelfEdit ==
  {"screenName", "email", "residence", "phone", "isHYYMember", "isTKTL",
   "password1", "password2"}

\* allowedJVEdit with role pushed onto it as well.
allowedJVEditWithRole ==
  allowedSelfEdit \cup {"name", "username", "membership", "role"}

allowedJVEdit == allowedSelfEdit \cup {"name", "username", "membership"}

allowedAdminEdit == allowedJVEdit \cup {"role", "createdAt"}

Kayttaja == "'Kayttaja'"
Jasenvirkailija == "'Jasenvirkailija'"
Yllapitaja == "'Yllapitaja'"
Roles == {Kayttaja, Jasenvirkailija, Yllapitaja}

\* The own keys of a stored User, in the order of the data model.
UserKeys ==
  <<"id", "username", "name", "screenName", "email", "residence", "phone",
    "isHYYMember", "isTKTL", "membership", "role", "createdAt", "deleted",
    "hashedPassword", "salt">>

StoredKeys == {UserKeys[i] : i \in 1..Len(UserKeys)}

----------------------------------------------------------------------------
(* Inputs of the update model *)

\* The largest number of keys other than id in an update payload.
MaxKeys == 2

\* validateUpdate reads two users, the modifier and the target (who may be
\* the same one): two stored users give every case.
Users == {1, 2}

\* The literal of a number.
NumLit(n) == ToString(n)

\* The ids a payload may propose: the stored users' and one of nobody.
ProposedIds == {NumLit(n) : n \in Users \cup {3}}

\* The keys an update payload may carry: the stored columns and the two
\* password fields of IAdditionalUserData.
PayloadKeys == StoredKeys \cup {"password1", "password2"}

\* The keys of the payloads of the update sequences: id and, of the keys
\* editable by oneself, by a Jasenvirkailija, by a Yllapitaja and by nobody,
\* a stored one each, with a password field.
SequenceKeys ==
  {"id", "email", "password1", "name", "role", "createdAt", "salt"}

\* The values a request proposes for a key.
ProposedValues(k) ==
  CASE k = "id" -> ProposedIds
    [] k = "role" -> Roles
    [] k \in {"isHYYMember", "isTKTL"} -> {"false", "'1'"}
    [] k = "deleted" -> {"false", "true"}
    [] OTHER -> {"'a'", "'b'"}

\* A stored user as first seeded.
SeedUser(n, role) ==
  [k \in StoredKeys |->
     CASE k = "id" -> NumLit(n)
       [] k = "role" -> role
       [] k \in {"isHYYMember", "isTKTL"} -> "true"
       [] k = "deleted" -> "false"
       [] OTHER -> "'a'"]

\* The stored users as seeded, every one a Kayttaja.
SeedUsers == [u \in Users |-> SeedUser(u, Kayttaja)]

\* The payloads over the keys Keys.
PayloadsOver(Keys) ==
  UNION {{p \in [K -> UNION {ProposedValues(k) : k \in K}] :
            \A k \in K : p[k] \in ProposedValues(k)} :
         K \in {K \in SUBSET Keys : Cardinality(K \ {"id"}) <= MaxKeys}}

Payloads == PayloadsOver(PayloadKeys)

SequencePayloads == PayloadsOver(SequenceKeys)

----------------------------------------------------------------------------
(* UserValidator.ts *)

\* checkModifyPermission throwing only when no key is allowed.
checkModifyPermissionSomeKey(user, allowedEdits) ==
  \/ DOMAIN user = {}
  \/ \E key \in DOMAIN user : key \in allowedEdits \/ key = "id"

\* checkModifyPermission: TRUE when it returns, FALSE when it throws 403.
checkModifyPermission(user, allowedEdits) ==
  \A key \in DOMAIN user : key \in allowedEdits \/ key = "id"

\* validateUpdate without the removal of what has not changed.
unchangedKeysNone(oldUser, newUser) == {}

\* validateUpdate, lines 134-139: the keys whose value has not changed.
unchangedKeys(oldUser, newUser) ==
  {k \in DOMAIN newUser :
     Get(oldUser, k) # Undefined /\ Get(oldUser, k) = newUser[k]}

\* UserHelpers.stringToBoolean.
stringToBoolean(v) ==
  IF v \in {"true", "'true'", "1", "'1'"} THEN "true" ELSE "false"

\* The tiers with the modifier's role tested before the self edit.
permissionStepRoleFirst(userId, newUser, modifier) ==
  IF modifier["role"] = Yllapitaja
    THEN [newUser |-> newUser,
          ok |-> checkModifyPermission(newUser, allowedAdminEdit)]
  ELSE IF modifier["role"] = Jasenvirkailija
    THEN [newUser |-> newUser,
          ok |-> checkModifyPermission(newUser, allowedJVEdit)]
  ELSE IF userId = modifier["id"]
    THEN LET self == With(newUser, "id", userId)
         IN  [newUser |-> self,
              ok |-> checkModifyPermission(self, allowedSelfEdit)]
  ELSE [newUser |-> newUser, ok |-> FALSE]

\* The tiers with the last branch checking the self-edit list instead of
\* throwing.
permissionStepNoElse(userId, newUser, modifier) ==
  IF userId = modifier["id"]
    THEN LET self == With(newUser, "id", userId)
         IN  [newUser |-> self,
              ok |-> checkModifyPermission(self, allowedSelfEdit)]
  ELSE IF userId # modifier["id"] /\ modifier["role"] = Jasenvirkailija
    THEN [newUser |-> newUser,
          ok |-> checkModifyPermission(newUser, allowedJVEdit)]
  ELSE IF userId # modifier["id"] /\ modifier["role"] = Yllapitaja
    THEN [newUser |-> newUser,
          ok |-> checkModifyPermission(newUser, allowedAdminEdit)]
  ELSE [newUser |-> newUser,
        ok |-> checkModifyPermission(newUser, allowedSelfEdit)]

\* validateUpdate, lines 141-160: the payload as the tier leaves it and
\* whether the permission check returned.
permissionStep(userId, newUser, modifier) ==
  IF userId = modifier["id"]
    THEN LET self == With(newUser, "id", userId)
         IN  [newUser |-> self,
              ok |-> checkModifyPermission(self, allowedSelfEdit)]
  ELSE IF userId # modifier["id"] /\ modifier["role"] = Jasenvirkailija
    THEN [newUser |-> newUser,
          ok |-> checkModifyPermission(newUser, allowedJVEdit)]
  ELSE IF userId # modifier["id"] /\ modifier["role"] = Yllapitaja
    THEN [newUser |-> newUser,
          ok |-> checkModifyPermission(newUser, allowedAdminEdit)]
  ELSE [newUser |-> newUser, ok |-> FALSE]

\* validateUpdate, lines 170-176.
convertBooleans(newUser) ==
  [k \in DOMAIN newUser |->
     IF k \in {"isTKTL", "isHYYMember"} /\ Truthy(newUser[k])
       THEN stringToBoolean(newUser[k])
       ELSE newUser[k]]

Rejected(code, msg, newUser) ==
  [status |-> code, message |-> msg, newUser |-> newUser]

\* validateUpdate.  env holds the answers of the collaborators it awaits:
\* usernameAvailable, emailAvailable (UserService) and validEmail
\* (validator.isEmail and validator.isLength).  status 200 stands for the
\* promise resolving.
validateUpdate(userId, newUser0, modifier, oldUser, env) ==
  LET changed == Without(newUser0, unchangedKeys(oldUser, newUser0))
      perm == permissionStep(userId, changed, modifier)
      newUser == perm.newUser
  IN  IF ~perm.ok
        THEN Rejected(403, "Forbidden modify action", newUser)
      ELSE IF Truthy(Get(newUser, "username")) /\ ~env.usernameAvailable
        THEN Rejected(400, "Username already taken", newUser)
      ELSE IF Truthy(Get(newUser, "email")) /\ ~env.emailAvailable
        THEN Rejected(400, "Email address already taken", newUser)
      ELSE IF Truthy(Get(newUser, "email")) /\ ~env.validEmail
        THEN Rejected(400, "Malformed email", newUser)
      ELSE IF /\ Truthy(Get(newUser, "password1"))
              /\ Truthy(Get(newUser, "password2"))
              /\ Get(newUser, "password1") # Get(newUser, "password2")
        THEN Rejected(400, "Passwords do not match",
                      convertBooleans(newUser))
      ELSE [status |-> 200, message |-> "ok",
            newUser |-> convertBooleans(newUser)]

\* The persistence collaborator: the stored columns named in the accepted
\* payload are written to the row of userId; id is the correlation key.
persistUserFields(oldUser, fields) ==
  [k \in DOMAIN oldUser |->
     IF k \in DOMAIN fields /\ k # "id" THEN fields[k] ELSE oldUser[k]]

\* The answers validateUpdate may get for the payload newUser: a
\* collaborator that is not asked for a key the payload lacks has no answer.
Envs(newUser) ==
  [usernameAvailable :
     IF "username" \in DOMAIN newUser THEN BOOLEAN ELSE {TRUE},
   emailAvailable : IF "email" \in DOMAIN newUser THEN BOOLEAN ELSE {TRUE},
   validEmail : IF "email" \in DOMAIN newUser THEN BOOLEAN ELSE {TRUE}]

Idle == [phase |-> "idle"]

----------------------------------------------------------------------------
(* The update requests *)

\* The service as started, no request in progress.
Init ==
  /\ users = SeedUsers
  /\ upd = Idle /\ auth = Idle /\ gate = Idle /\ disc = Idle

\* The service started on any assignment of roles to the stored users.
InitUpdate ==
  /\ users \in {[u \in Users |-> SeedUser(u, r[u])] : r \in [Users -> Roles]}
  /\ upd = Idle /\ auth = Idle /\ gate = Idle /\ disc = Idle

\* An update request with a payload of P reaches validateUpdate.
ValidateUpdate(P) ==
  /\ upd.phase = "idle"
  /\ \E m \in Users, t \in Users, p \in P :
       \E env \in Envs(p) :
         LET res == validateUpdate(NumLit(t), p, users[m], users[t], env)
         IN  upd' = [phase |-> "validated", target |-> t, modifier |-> m,
                     request |-> p, status |-> res.status,
                     message |-> res.message, newUser |-> res.newUser]
  /\ UNCHANGED <<users, auth, gate, disc>>

\* validateUpdate resolved: the caller persists the payload it left.
PersistUpdate ==
  /\ upd.phase = "validated"
  /\ upd.status = 200
  /\ users' = [users EXCEPT ![upd.target] =
                 persistUserFields(users[upd.target], upd.newUser)]
  /\ upd' = Idle
  /\ UNCHANGED <<auth, gate, disc>>

\* validateUpdate threw: the error is answered and nothing is persisted.
RejectUpdate ==
  /\ upd.phase = "validated"
  /\ upd.status # 200
  /\ upd' = Idle
  /\ UNCHANGED <<users, auth, gate, disc>>

\* The request is over, whatever validateUpdate decided.
SettleUpdate ==
  /\ upd.phase = "validated"
  /\ upd' = Idle
  /\ UNCHANGED <<users, auth, gate, disc>>

NextUpdate == ValidateUpdate(Payloads) \/ SettleUpdate

NextSequence ==
  ValidateUpdate(SequencePayloads) \/ PersistUpdate \/ RejectUpdate

\* Single update requests over every key, on every assignment of roles.
SpecUpdate == InitUpdate /\ [][NextUpdate]_vars

\* Sequences of update requests, each accepted one persisted.
SpecSequence == InitUpdate /\ [][NextSequence]_vars

----------------------------------------------------------------------------
(* AuthController.ts: authenticate and vanillaAuthenticate *)

\* The largest user id a request or a token names.
MaxSubject == 3

\* The largest permission level a request or a token names.
MaxLevel == 3

\* What a request body may hold where a number is expected: nothing, zero,
\* the empty string or a number.
NumberInputs(max) == {"undefined", "0", "''"} \cup {NumLit(n) : n \in 1..max}

\* What a request body may hold where a string is expected.
StringInputs == {"undefined", "''", "'x'"}

\* redirectTo: a URL, something that is none, or nothing.
RedirectInputs == {"undefined", "''", "'https://x.example/'", "'x'"}

\* new URL(v) returns for an absolute URL and throws a TypeError otherwise.
URLParses(v) == v = "'https://x.example/'"

AuthenticateBodies ==
  [serviceName : StringInputs, redirectTo : RedirectInputs,
   permission : NumberInputs(MaxLevel), userId : NumberInputs(MaxSubject)]

VanillaBodies ==
  [permissionVal : NumberInputs(MaxLevel), redirectTo : RedirectInputs,
   permission : StringInputs, userId : NumberInputs(MaxSubject)]

NoToken == <<>>

\* AuthenticationService.createToken: the token binds the subject and the
\* permission level it was called with.
createToken(userId, permissionLevel) == <<"jwt", userId, permissionLevel>>

\* A response: the status, the message of the ServiceResponse, the token of
\* its payload, the token cookie and the redirect target.  Status 0 is a
\* handler whose promise rejected before any response was sent.
Response(status, message, token, cookie, redirectTo) ==
  [status |-> status, message |-> message, token |-> token,
   cookie |-> cookie, redirectTo |-> redirectTo]

InvalidParams ==
  Response(400, "Invalid POST params", NoToken, NoToken, "undefined")

\* vanillaAuthenticate's test with permissionVal left out.
vanillaMissingParamsNoLevel(body) ==
  \/ ~Truthy(body.redirectTo)
  \/ ~Truthy(body.permission)
  \/ ~Truthy(body.userId)

\* authenticate, line 28.
authenticateMissingParams(body) ==
  \/ ~Truthy(body.serviceName)
  \/ ~Truthy(body.redirectTo)
  \/ ~Truthy(body.permission)
  \/ ~Truthy(body.userId)

\* vanillaAuthenticate, line 41.
vanillaMissingParams(body) ==
  \/ ~Truthy(body.permissionVal)
  \/ ~Truthy(body.redirectTo)
  \/ ~Truthy(body.permission)
  \/ ~Truthy(body.userId)

\* authenticate.  signs: whether createToken returns (it throws when the
\* signing secret is unavailable).  calls: the arguments of each createToken
\* call made.
authenticate(body, signs) ==
  IF authenticateMissingParams(body)
    THEN [calls |-> <<>>, response |-> InvalidParams]
  ELSE LET args == <<body.userId, "1">>
       IN  IF ~signs
             THEN [calls |-> <<args>>,
                   response |-> Response(500, "SigningError", NoToken,
                                         NoToken, "undefined")]
             ELSE [calls |-> <<args>>,
                   response |-> Response(200, "Success",
                                         createToken(args[1], args[2]),
                                         NoToken, body.redirectTo)]

\* vanillaAuthenticate.
vanillaAuthenticate(body, signs) ==
  IF vanillaMissingParams(body)
    THEN [calls |-> <<>>, response |-> InvalidParams]
  ELSE LET args == <<body.userId, body.permissionVal>>
       IN  IF ~signs
             THEN [calls |-> <<args>>,
                   response |-> Response(500, "SigningError", NoToken,
                                         NoToken, "undefined")]
           ELSE IF ~URLParses(body.redirectTo)
             THEN [calls |-> <<args>>,
                   response |-> Response(0, "TypeError", NoToken, NoToken,
                                         "undefined")]
             ELSE [calls |-> <<args>>,
                   response |-> Response(302, "", NoToken,
                                         createToken(args[1], args[2]),
                                         body.redirectTo)]

\* POST /authenticate.
Authenticate ==
  /\ auth.phase = "idle"
  /\ \E body \in AuthenticateBodies, signs \in BOOLEAN :
       LET r == authenticate(body, signs)
       IN  auth' = [phase |-> "answered", handler |-> "authenticate",
                    body |-> body,
                    calls |-> r.calls, response |-> r.response]
  /\ UNCHANGED <<users, upd, gate, disc>>

\* POST /vanillaAuthenticate.
VanillaAuthenticate ==
  /\ auth.phase = "idle"
  /\ \E body \in VanillaBodies, signs \in BOOLEAN :
       LET r == vanillaAuthenticate(body, signs)
       IN  auth' = [phase |-> "answered", handler |-> "vanillaAuthenticate",
                    body |-> body,
                    calls |-> r.calls, response |-> r.response]
  /\ UNCHANGED <<users, upd, gate, disc>>

\* The request is over.
EndAuth ==
  /\ auth.phase = "answered"
  /\ auth' = Idle
  /\ UNCHANGED <<users, upd, gate, disc>>

NextAuth == Authenticate \/ VanillaAuthenticate \/ EndAuth

\* The two authentication handlers.
SpecAuth == Init /\ [][NextAuth]_vars

----------------------------------------------------------------------------
(* Authorize.ts: the authorize middleware *)

\* A string is the sequence of its characters.  A token string is a sequence
\* of three symbols: its kind, its subject and its permission level.
BearerPrefix == <<"B", "e", "a", "r", "e", "r", " ">>

\* String.prototype.startsWith.
startsWith(str, prefix) ==
  Len(str) >= Len(prefix) /\ SubSeq(str, 1, Len(prefix)) = prefix

\* String.prototype.slice(n).
slice(str, n) == SubSeq(str, n + 1, Len(str))

\* What precedes the token in an Authorization header.
HeaderPrefixes ==
  {BearerPrefix,
   <<"b", "e", "a", "r", "e", "r", " ">>,
   <<"B", "e", "a", "r", "e", "r">>,
   <<"B", "a", "s", "i", "c", " ">>,
   <<>>}

\* The token strings presented: signed ones, tampered ones, expired ones
\* and ones cut short.
TokenStrings ==
  ({"jwt", "tampered", "expired"}
     \X {NumLit(n) : n \in 1..MaxSubject}
     \X {NumLit(n) : n \in 1..MaxLevel})
    \cup {<<>>, <<"jwt">>}

\* The Authorization headers; NoHeader is a request without one.
NoHeader == <<"undefined">>

Headers == {pre \o tok : pre \in HeaderPrefixes, tok \in TokenStrings}
             \cup {NoHeader}

\* Token.stringToServiceToken: the ServiceToken of a signed, unexpired
\* token string; any other string throws, with the verifier's message.
stringToServiceToken(str) ==
  IF Len(str) # 3 \/ str[1] \notin {"jwt", "tampered", "expired"}
    THEN [ok |-> FALSE, error |-> "jwt malformed"]
  ELSE IF str[1] = "tampered"
    THEN [ok |-> FALSE, error |-> "invalid signature"]
  ELSE IF str[1] = "expired"
    THEN [ok |-> FALSE, error |-> "jwt expired"]
  ELSE [ok |-> TRUE,
        token |-> [userId |-> str[2], authenticatedTo |-> str[3]]]

NoAuthorization == [userId |-> "undefined", authenticatedTo |-> "undefined"]

\* authorize: the responses sent, the number of next() calls and
\* req.authorization when it returns.
authorize(header) ==
  IF header = NoHeader \/ header = <<>> \/ ~startsWith(header, BearerPrefix)
    THEN [responses |-> <<[status |-> 401, message |-> "Unauthorized"]>>,
          nextCalls |-> 0, authorization |-> NoAuthorization]
  ELSE LET decoded == stringToServiceToken(slice(header, 7))
       IN  IF decoded.ok
             THEN [responses |-> <<>>, nextCalls |-> 1,
                   authorization |-> decoded.token]
             ELSE [responses |->
                     <<[status |-> 500, message |-> decoded.error]>>,
                   nextCalls |-> 0, authorization |-> NoAuthorization]

\* A request reaches a route guarded by authorize.
Authorize ==
  /\ gate.phase = "idle"
  /\ \E header \in Headers :
       LET r == authorize(header)
       IN  gate' = [phase |-> "returned", header |-> header,
                    responses |-> r.responses, nextCalls |-> r.nextCalls,
                    authorization |-> r.authorization]
  /\ UNCHANGED <<users, upd, auth, disc>>

\* The request is over.
EndAuthorize ==
  /\ gate.phase = "returned"
  /\ gate' = Idle
  /\ UNCHANGED <<users, upd, auth, disc>>

NextGate == Authorize \/ EndAuthorize

\* The authorize middleware.
SpecGate == Init /\ [][NextGate]_vars

----------------------------------------------------------------------------
(* AuthController.ts: requestPermissions *)

\* A non-negative integer is the set of the positions of its one bits.
\* The highest bit position a dataPermissions mask may set.
MaxBit == 33

\* The largest number of key bits in which a mask differs from no key bit
\* or from every key bit.
MaxMaskBits == 2

\* The operands of a bitwise operator are converted to 32-bit integers.
Int32Width == 32

\* The subsets of S of at most k elements.
RECURSIVE SubsetsUpTo(_, _)
SubsetsUpTo(S, k) ==
  IF k = 0
    THEN {{}}
    ELSE LET smaller == SubsetsUpTo(S, k - 1)
         IN  smaller \cup {T \cup {x} : T \in smaller, x \in S}

\* The bits that stand for a key of the user, and the bits beyond them.
KeyBits == 0..(Len(UserKeys) - 1)

HighBits == Len(UserKeys)..MaxBit

\* The masks: few or all but few of the key bits, with none, one or all of
\* the bits beyond.
Masks ==
  LET few == SubsetsUpTo(KeyBits, MaxMaskBits)
      low == few \cup {KeyBits \ S : S \in few}
      high == {{}, HighBits} \cup {{b} : b \in HighBits}
  IN  {l \cup h : l \in low, h \in high}

\* ToInt32: the number modulo 2^32, as a bit pattern.
ToInt32(n) == {b \in n : b < Int32Width}

\* a & b: the bit pattern of the result.
BitAnd(a, b) == ToInt32(a) \cap ToInt32(b)

\* The number a 32-bit pattern stands for: its sign and its magnitude.  A
\* pattern with bit 31 set is negative, of magnitude 2^32 minus the pattern.
Int32Value(pattern) ==
  IF (Int32Width - 1) \notin pattern
    THEN [negative |-> FALSE, magnitude |-> pattern]
    ELSE LET inverted == (0..(Int32Width - 1)) \ pattern
             carry == CHOOSE z \in 0..Int32Width :
                        /\ z \notin inverted
                        /\ \A y \in 0..(z - 1) : y \in inverted
         IN  [negative |-> TRUE,
              magnitude |-> {b \in inverted : b > carry} \cup {carry}]

\* Math.pow(2, idx).
Pow2(idx) == [negative |-> FALSE, magnitude |-> {idx}]

\* The test of line 94 with the key's ordinal counted from one.
bitSelectedFromOne(idx, dataPermissions) ==
  Int32Value(BitAnd({idx + 1}, dataPermissions)) = Pow2(idx + 1)

\* requestPermissions, line 94:
\* (Math.pow(2, idx) & service.dataPermissions) == Math.pow(2, idx).
bitSelected(idx, dataPermissions) ==
  Int32Value(BitAnd({idx}, dataPermissions)) = Pow2(idx)

\* requestPermissions, lines 93-100: the keys pushed, over the own keys of
\* user in their order (idx counts from zero).
RECURSIVE pushKeys(_, _, _, _)
pushKeys(keys, user, dataPermissions, idx) ==
  IF idx >= Len(keys)
    THEN <<>>
    ELSE (IF bitSelected(idx, dataPermissions)
            THEN <<[name |-> keys[idx + 1], value |-> user[keys[idx + 1]]]>>
            ELSE <<>>)
         \o pushKeys(keys, user, dataPermissions, idx + 1)

DisclosureBodies ==
  [serviceName : {"undefined", "'x'"}, redirectTo : {"undefined", "'x'"},
   username : {"undefined", "'x'"}, password : {"undefined", "'x'"}]

NoInformation == <<>>

\* What AuthenticationService.getService gives: a service with its
\* dataPermissions, or nothing when it throws.
Services ==
  {[known |-> TRUE, dataPermissions |-> m] : m \in Masks}
    \cup {[known |-> FALSE, dataPermissions |-> {}]}

\* requestPermissions.  lookup: the user the credentials resolve to, or 0
\* when UserService throws.
requestPermissions(body, lookup, service) ==
  IF \/ ~Truthy(body.serviceName) \/ ~Truthy(body.redirectTo)
     \/ ~Truthy(body.username) \/ ~Truthy(body.password)
    THEN [status |-> 400, message |-> "Invalid POST params",
          personalInformation |-> NoInformation]
  ELSE IF lookup = 0
    THEN [status |-> 401, message |-> "Unauthorized",
          personalInformation |-> NoInformation]
  ELSE IF ~service.known
    THEN [status |-> 404, message |-> "Not found",
          personalInformation |-> NoInformation]
  ELSE [status |-> 200, message |-> "gdpr",
        personalInformation |->
          pushKeys(UserKeys, users[lookup], service.dataPermissions, 0)]

\* POST /requestPermissions.
RequestPermissions ==
  /\ disc.phase = "idle"
  /\ \E body \in DisclosureBodies, lookup \in Users \cup {0},
        service \in Services :
       LET r == requestPermissions(body, lookup, service)
       IN  disc' = [phase |-> "answered", body |-> body, user |-> lookup,
                    service |-> service,
                    status |-> r.status, message |-> r.message,
                    personalInformation |-> r.personalInformation]
  /\ UNCHANGED <<users, upd, auth, gate>>

\* The request is over.
EndRequestPermissions ==
  /\ disc.phase = "answered"
  /\ disc' = Idle
  /\ UNCHANGED <<users, upd, auth, gate>>

NextDisclosure == RequestPermissions \/ EndRequestPermissions

\* The disclosure handler.
SpecDisclosure == Init /\ [][NextDisclosure]_vars

----------------------------------------------------------------------------
(* Claims about validateUpdate *)

Validated == upd.phase = "validated"

ModifierUser == users[upd.modifier]

TargetUser == users[upd.target]

SelfTier == Validated /\ upd.modifier = upd.target

JVTier ==
  /\ Validated /\ upd.modifier # upd.target
  /\ ModifierUser["role"] = Jasenvirkailija

AdminTier ==
  /\ Validated /\ upd.modifier # upd.target
  /\ ModifierUser["role"] = Yllapitaja

\* The keys of the request whose value differs from the stored one.
ChangedKeys ==
  {k \in DOMAIN upd.request :
     k \notin StoredKeys \/ TargetUser[k] # upd.request[k]}

Forbidden == upd.status = 403 /\ upd.message = "Forbidden modify action"

\* The request is rejected exactly when a changed key other than id is
\* outside list, and then by the 403 error.
FailClosed(list) ==
  /\ upd.status = 403 <=> ~(ChangedKeys \ {"id"} \subseteq list)
  /\ upd.status = 403 => upd.message = "Forbidden modify action"

\* C1: in each of the three tiers an update with a changed key other than
\* id outside the tier's allowed-field list is rejected as a whole with 403
\* "Forbidden modify action", and an update whose changed keys other than id
\* are all in the list is not rejected by the permission check.
C1_FailClosed ==
  /\ SelfTier => FailClosed(allowedSelfEdit)
  /\ JVTier => FailClosed(allowedJVEdit)
  /\ AdminTier => FailClosed(allowedAdminEdit)

\* A Jasenvirkailija changes another user's username and role: one key in
\* the list, one outside it, and the whole update is rejected.
C1_Witness ==
  /\ JVTier /\ Forbidden
  /\ {"username", "role"} \subseteq ChangedKeys
  /\ ChangedKeys \subseteq {"username", "role"}

\* C2: when the modifier is the target the self-edit list is the one
\* applied whatever the modifier's role: the update is rejected with
\* Forbidden exactly when a changed key other than id is outside
\* {screenName, email, residence, phone, isHYYMember, isTKTL, password1,
\* password2}.
C2_SelfTierFirst ==
  SelfTier =>
    /\ Forbidden <=>
         ~(ChangedKeys \ {"id"} \subseteq
             {"screenName", "email", "residence", "phone", "isHYYMember",
              "isTKTL", "password1", "password2"})
    /\ ChangedKeys \cap {"role", "name", "username", "membership",
                         "createdAt"} # {} => Forbidden
    /\ ChangedKeys \ {"id"} \subseteq {"email", "phone"} => upd.status # 403

\* A Yllapitaja changing the own role is rejected with Forbidden.
C2_Witness ==
  /\ SelfTier /\ ModifierUser["role"] = Yllapitaja
  /\ ChangedKeys = {"role"} /\ Forbidden

\* C3: a modifier other than the target whose role is neither
\* Jasenvirkailija nor Yllapitaja is rejected with the 403 error for every
\* payload.
C3_OtherActorForbidden ==
  (/\ Validated /\ upd.modifier # upd.target
   /\ ModifierUser["role"] \notin {Jasenvirkailija, Yllapitaja})
    => Forbidden

\* A Kayttaja is rejected on another user with an empty payload.
C3_Witness ==
  /\ Validated /\ upd.modifier # upd.target
  /\ ModifierUser["role"] = Kayttaja
  /\ DOMAIN upd.request = {} /\ Forbidden

\* C4: in the tiers that have an allowed list, a key whose proposed value
\* equals the stored value is dropped before the permission check: it is
\* not in the payload the check sees (id apart, which the self tier sets),
\* a Forbidden rejection is always due to a changed key, and a payload of
\* unchanged keys only is accepted.
C4_UnchangedDropped ==
  (SelfTier \/ JVTier \/ AdminTier) =>
    /\ (DOMAIN upd.newUser) \ {"id"} \subseteq ChangedKeys
    /\ upd.status = 403 => ChangedKeys \ {"id"} # {}
    /\ ChangedKeys = {} => upd.status = 200

\* A Kayttaja's self-edit carrying the unchanged role is accepted.
C4_Witness ==
  /\ SelfTier /\ ModifierUser["role"] = Kayttaja
  /\ DOMAIN upd.request = {"role"} /\ ChangedKeys = {}
  /\ upd.status = 200

\* C5: id is never a reason to reject, and an accepted payload has no id
\* or the id of the target.
C5_IdNeverMutated ==
  Validated =>
    /\ (upd.status = 403 /\ (SelfTier \/ JVTier \/ AdminTier))
         => ChangedKeys \ {"id"} # {}
    /\ upd.status = 200 =>
         \/ "id" \notin DOMAIN upd.newUser
         \/ upd.newUser["id"] = NumLit(upd.target)

----------------------------------------------------------------------------
(* Claims about the authentication handlers *)

Answered == auth.phase = "answered"

\* The permission level a request supplies: permission to authenticate,
\* permissionVal to vanillaAuthenticate.
RequestLevel ==
  IF auth.handler = "authenticate"
    THEN auth.body.permission
    ELSE auth.body.permissionVal

\* C7: a request without userId or without its permission level (absent,
\* empty or zero) is answered 400 "Invalid POST params"; createToken is not
\* called and no token or cookie is returned.
C7_MissingParamsNoToken ==
  (/\ Answered
   /\ \/ ~Truthy(auth.body.userId)
      \/ RequestLevel \in {"undefined", "''", "0"})
    => /\ auth.response.status = 400
       /\ auth.response.message = "Invalid POST params"
       /\ auth.calls = <<>>
       /\ auth.response.token = NoToken
       /\ auth.response.cookie = NoToken

\* vanillaAuthenticate with a userId and without a permission level: 400
\* and no createToken call.
C7_Witness ==
  /\ Answered /\ auth.handler = "vanillaAuthenticate"
  /\ Truthy(auth.body.userId) /\ Truthy(auth.body.redirectTo)
  /\ Truthy(auth.body.permission) /\ RequestLevel = "0"
  /\ auth.response.status = 400 /\ auth.calls = <<>>

\* C9: a request that passes validation calls createToken exactly once, with
\* the request's userId and the request's permission level, and a token
\* returned to the caller is the token of that call.
C9_TokenBindsRequest ==
  (Answered /\ auth.response.status # 400) =>
    /\ auth.calls = <<<<auth.body.userId, RequestLevel>>>>
    /\ \A t \in {auth.response.token, auth.response.cookie} \ {NoToken} :
         t = createToken(auth.body.userId, RequestLevel)

----------------------------------------------------------------------------
(* Claims about the authorize middleware *)

Returned == gate.phase = "returned"

\* The header starts with "Bearer " and what follows it is a signed,
\* unexpired token.
GoodBearer ==
  /\ gate.header # NoHeader /\ Len(gate.header) = 10
  /\ SubSeq(gate.header, 1, 7) = BearerPrefix
  /\ gate.header[8] = "jwt"

\* The header starts with "Bearer ".
HasBearer ==
  /\ gate.header # NoHeader /\ Len(gate.header) >= 7
  /\ SubSeq(gate.header, 1, 7) = BearerPrefix

\* C8: exactly one of a response and next() happens; next() only for a
\* Bearer header whose token decoded, with req.authorization the decoded
\* token; a missing or non-Bearer header is answered 401 "Unauthorized"; a
\* decode failure is answered by an opaque Unauthorized or InvalidTokenError
\* rejection that does not carry the exception's message.
C8_TokenGate ==
  Returned =>
    /\ Len(gate.responses) + gate.nextCalls = 1
    /\ gate.nextCalls = 1 =>
         /\ GoodBearer
         /\ gate.authorization =
              [userId |-> gate.header[9], authenticatedTo |-> gate.header[10]]
    /\ ~HasBearer =>
         gate.responses = <<[status |-> 401, message |-> "Unauthorized"]>>
    /\ (HasBearer /\ ~GoodBearer) =>
         /\ Len(gate.responses) = 1
         /\ gate.responses[1].message \in {"Unauthorized", "InvalidTokenError"}
         /\ gate.responses[1].message # stringToServiceToken(slice(gate.header, 7)).error

----------------------------------------------------------------------------
(* Claims about requestPermissions *)

Disclosed == disc.phase = "answered" /\ disc.status = 200

\* The ordinals (from zero) of the user's keys whose bit is set in the mask.
VisibleOrdinals ==
  {i \in 0..(Len(UserKeys) - 1) : i \in disc.service.dataPermissions}

\* The j-th smallest of the visible ordinals.
NthVisible(j) ==
  CHOOSE i \in VisibleOrdinals :
    Cardinality({x \in VisibleOrdinals : x < i}) = j - 1

\* C6: the disclosed list holds the pair (key, user[key]) of the key at
\* ordinal i exactly when bit i of the mask is set, each once and in the
\* order of the keys; mask 0 discloses nothing and bits at or beyond the
\* number of keys change nothing.
C6_MaskExact ==
  Disclosed =>
    /\ Len(disc.personalInformation) = Cardinality(VisibleOrdinals)
    /\ \A j \in 1..Len(disc.personalInformation) :
         disc.personalInformation[j] =
           [name |-> UserKeys[NthVisible(j) + 1],
            value |-> users[disc.user][UserKeys[NthVisible(j) + 1]]]

\* A mask with bits 0 and 2 set and every bit from the number of keys on:
\* the first and the third key are disclosed, in that order.
C6_Witness ==
  /\ Disclosed
  /\ disc.service.dataPermissions = {0, 2} \cup HighBits
  /\ Len(disc.personalInformation) = 2
  /\ disc.personalInformation[1].name = "id"
  /\ disc.personalInformation[2].name = "name"

====
